---- MODULE Spec2Model ----
(***************************************************************************)
(* Hodie Labs visualization service (hodie-labs/visualization-service/     *)
(* app.py): the render endpoints, the image directory, the image           *)
(* retrieval endpoint and the 24h cleanup sweep.                           *)
(*                                                                         *)
(* Time is counted in hours (datetime.now() and the files' mtime);         *)
(* file_age.total_seconds() is the difference in hours times 3600.         *)
(* The image directory is a function from the names of the files present   *)
(* to their mtime.  The pixels of an image are not modelled.               *)
(***************************************************************************)
EXTENDS Integers, Sequences, FiniteSets, TLC

VARIABLES
    IMAGE_DIR,  \* the files of generated_images/: filename -> mtime (hours)
    clock,      \* the wall clock, in hours
    issued,     \* history: every filename save_figure has ever written
    nputs,      \* history: the number of save_figure calls so far
    nreqs,      \* history: the number of render requests served so far
    req,        \* the last render request
    resp,       \* the response to the last render request
    touched,    \* the files the last render request created, changed or deleted
    figs,       \* the content of the figures the last render request saved, in order
    sw,         \* the cleanup requests in flight, one record per worker
    last,       \* history: the last cleanup that ran alone to completion
    gt          \* the image request (GET /api/images/<filename>) in flight

vars == <<IMAGE_DIR, clock, issued, nputs, nreqs, req, resp, touched, figs, sw, last, gt>>

----------------------------------------------------------------------------
(* Bounds of the model. *)

\* The number of values uuid4().hex[:8] takes in the model.
NTokens == 2
\* The cap on save_figure calls in the store-lifecycle specification.
MaxPuts == 2
\* The clock stops advancing here (hours).
MaxClock == 25
\* The longest array of a render request.
MaxLen == 2

(* Program constants. *)

\* if file_age.total_seconds() > 86400:  # 24 hours
RETENTION_SECONDS == 86400

----------------------------------------------------------------------------
(* The image store: filenames, save_figure. *)

\* The values uuid.uuid4().hex[:8] can return (8 hex digits each).
TokenHex == <<"1a2b3c4d", "5e6f7a8b", "9c0d1e2f", "0f1e2d3c">>

Tokens == 1..NTokens

\* The prefixes the handlers pass to save_figure.
Prefixes ==
    {"histogram", "scatter", "multi_histogram", "bar_chart", "blood_histograms",
     "frequency_vs_monetary", "class_distribution", "recency_vs_frequency"}

\* filename = f"{prefix}_{uuid.uuid4().hex[:8]}.png"
Filename(prefix, tok) == prefix \o "_" \o TokenHex[tok] \o ".png"

\* 'url': f'/api/images/{filename}'
Url(filename) == "/api/images/" \o filename

\* fig.savefig(filepath, ...): creates the file or overwrites it, mtime = now.
savefig(dir, filename, t) == (filename :> t) @@ dir

\* What save_figure returns.
Descriptor(filename) == [filename |-> filename, url |-> Url(filename)]

\* A save_figure that builds the descriptor and never writes the file.
save_figure_unsaved(dir, prefix, tok, t) ==
    [dir  |-> dir,
     desc |-> Descriptor(Filename(prefix, tok))]

\* save_figure(fig, prefix) with uuid4 drawing tok, at time t, on directory
\* dir: the directory afterwards and the descriptor returned.
save_figure(dir, prefix, tok, t) ==
    [dir  |-> savefig(dir, Filename(prefix, tok), t),
     desc |-> Descriptor(Filename(prefix, tok))]

----------------------------------------------------------------------------
(* The cleanup workers' records, and the history kept of them. *)

Sweepers == {"w1", "w2"}

\* An expiry test that takes an age of exactly 24h as expired (>= for >).
ExpiredAtLimit(mtime, now) == (now - mtime) * 3600 >= RETENTION_SECONDS

\* file_age = now - datetime.fromtimestamp(os.path.getmtime(filepath))
\* file_age.total_seconds() > 86400
Expired(mtime, now) == (now - mtime) * 3600 > RETENTION_SECONDS

\* A removal that leaves the file in place.
remove_kept(dir, filename) == dir

\* os.remove(filepath)
remove(dir, filename) == [f \in DOMAIN dir \ {filename} |-> dir[f]]

IdleSweep ==
    [pc |-> "idle", now |-> 0, todo |-> {}, cur |-> "", deleted |-> 0, status |-> 0,
     start |-> <<>>, alone |-> FALSE, second |-> FALSE, prevNow |-> 0]

\* The history fields of a cleanup that did not run alone are dropped.
Concurrent(r) ==
    [r EXCEPT !.alone = FALSE, !.start = <<>>, !.second = FALSE, !.prevNow = 0,
              !.now = IF r.pc = "done" THEN 0 ELSE @]

\* A store change by worker p, or by a render request (p = ""), is concurrent
\* with every other worker's cleanup.
Disturb(s, p) == [q \in Sweepers |-> IF q = p THEN s[q] ELSE Concurrent(s[q])]

\* No cleanup has run alone to completion since the store last changed.
NoLast == [valid |-> FALSE, now |-> 0]

----------------------------------------------------------------------------
(* Render requests. A request is a record; kind names the endpoint. *)

NoRequest == [kind |-> "none"]

\* A response: the status code, the descriptors of its body (one for a chart
\* endpoint, 'visualizations' for the blood-data report) and the body's
\* 'count' (NoCount where the body has none).
NoCount == -1
NoResponse == [status |-> 0, descs |-> <<>>, count |-> NoCount]

\* return jsonify({'error': ...}), code
Error(code) == [status |-> code, descs |-> <<>>, count |-> NoCount]

\* return jsonify(image_data)
Ok(desc) == [status |-> 200, descs |-> <<desc>>, count |-> NoCount]

\* return jsonify({'success': True, 'count': len(visualizations),
\*                 'visualizations': visualizations})
OkReport(visualizations) ==
    [status |-> 200, descs |-> visualizations, count |-> Len(visualizations)]

\* A handler's outcome: the response, the directory afterwards, the files
\* written and the figures drawn (filled in by Drew).
Outcome(response, dir, written) ==
    [resp |-> response, dir |-> dir, written |-> written, figs |-> <<>>]

\* The outcome of a handler that saved these figures on its way.
Drew(out, figures) == [out EXCEPT !.figs = figures]

\* A figure of point groups: one ax.scatter call per group.
Figure(panel, groups) == [panel |-> panel, groups |-> groups]

\* data.get('data', []) and the like: a missing key reads as the empty list.
\* An array is modelled by its length; -1 is a missing key.
Missing == -1
GetLen(n) == IF n = Missing THEN 0 ELSE n

\* generate_histogram: POST /api/visualize/histogram
generate_histogram(r, dir, tok, t) ==
    IF GetLen(r.data) = 0
    THEN Outcome(Error(400), dir, <<>>)
    ELSE LET s == save_figure(dir, "histogram", tok, t)
         IN  Outcome(Ok(s.desc), s.dir, <<s.desc.filename>>)

\* The 'classes' of a request and the 'class' of a record take these values.
ClassValues == {0, 1, 2}

\* The sequences over S of length 0..n.
SeqsUpTo(S, n) == UNION {[1..k -> S] : k \in 0..n}

\* pd.DataFrame({'x': x_data, 'y': y_data, 'class': classes}) raises a
\* ValueError unless the three arrays have one length.
DataFrameRaises(nx, ny, nc) == nx # ny \/ nx # nc

\* ax.scatter(x_data, y_data, ...) raises a ValueError unless x and y have
\* one size.
ScatterRaises(nx, ny) == nx # ny

\* color = '#10b981' if class_val == 1 else '#ef4444'
ClassColor(class_val) == IF class_val = 1 THEN "#10b981" ELSE "#ef4444"

\* label = 'Return Donor' if class_val == 1 else 'Non-Return Donor'
ClassLabel(class_val) == IF class_val = 1 THEN "Return Donor" ELSE "Non-Return Donor"

\* class_data = df[df['class'] == class_val]; ax.scatter(class_data[...], ...,
\* c=color, label=label): the group drawn for class_val, with the rows
\* (points) it holds.
ClassGroup(classes, class_val) ==
    [color |-> ClassColor(class_val), label |-> ClassLabel(class_val),
     points |-> {i \in 1..Len(classes) : classes[i] = class_val}]

\* for class_val in class_vals: one group per value, in order.
ClassGroups(classes, class_vals) ==
    [k \in 1..Len(class_vals) |-> ClassGroup(classes, class_vals[k])]

\* df['class'].unique(): the distinct values, in order of first appearance.
RECURSIVE Unique(_)
Unique(classes) ==
    IF classes = <<>>
    THEN <<>>
    ELSE LET u == Unique(SubSeq(classes, 1, Len(classes) - 1))
             v == classes[Len(classes)]
         IN  IF \E k \in 1..Len(u) : u[k] = v THEN u ELSE Append(u, v)

\* ax.scatter(x_data, y_data, ..., c='#3b82f6'): every point in one group
\* without a label.
PlainGroup(n) == [color |-> "#3b82f6", label |-> "", points |-> 1..n]

\* generate_scatter: POST /api/visualize/scatter. `if classes:` is false for
\* a missing key, null and the empty list alike: all three are <<>> here.
generate_scatter(r, dir, tok, t) ==
    IF GetLen(r.x_data) = 0 \/ GetLen(r.y_data) = 0
    THEN Outcome(Error(400), dir, <<>>)
    ELSE IF \/ Len(r.classes) > 0 /\ DataFrameRaises(r.x_data, r.y_data, Len(r.classes))
            \/ Len(r.classes) = 0 /\ ScatterRaises(r.x_data, r.y_data)
    THEN Outcome(Error(500), dir, <<>>)
    ELSE LET s == save_figure(dir, "scatter", tok, t)
             groups == IF Len(r.classes) > 0
                       THEN ClassGroups(r.classes, Unique(r.classes))
                       ELSE <<PlainGroup(r.x_data)>>
         IN  Drew(Outcome(Ok(s.desc), s.dir, <<s.desc.filename>>),
                  <<Figure("scatter", groups)>>)

\* A generate_multi_histogram that accepts a single dataset (< 1 for < 2).
generate_multi_histogram_one(r, dir, tok, t) ==
    IF GetLen(r.datasets) < 1
    THEN Outcome(Error(400), dir, <<>>)
    ELSE LET s == save_figure(dir, "multi_histogram", tok, t)
         IN  Outcome(Ok(s.desc), s.dir, <<s.desc.filename>>)

\* A grid with floor(n_plots / 2) rows.
GridRowsFloor(n_plots) == n_plots \div 2

\* rows = (n_plots + 1) // 2
GridRows(n_plots) == (n_plots + 1) \div 2

\* cols = 2 if n_plots > 1 else 1
GridCols(n_plots) == IF n_plots > 1 THEN 2 ELSE 1

\* plt.subplots(rows, cols) and axes.flatten() (or [axes] for the single
\* subplot): the subplots in row-major order, axes[idx] of the code being
\* element idx + 1 here, at row idx // cols and column idx % cols.
Flatten(rows, cols) ==
    [k \in 1..(rows * cols) |-> [row |-> (k - 1) \div cols, col |-> (k - 1) % cols]]

\* No dataset is drawn in a subplot.
NoDataset == 0

\* The grid after the two loops: dataset idx + 1 is drawn in axes[idx]
\* (`for idx, dataset in enumerate(datasets)`), and axes[idx] is hidden for
\* idx in range(len(datasets), len(axes)).
Grid(n_plots, rows, cols) ==
    LET axes == Flatten(rows, cols)
    IN  [panel |-> "multi_histogram", rows |-> rows, cols |-> cols,
         axes |-> [k \in 1..Len(axes) |->
                     [row |-> axes[k].row, col |-> axes[k].col,
                      dataset |-> IF k <= n_plots THEN k ELSE NoDataset,
                      visible |-> k <= n_plots]]]

\* generate_multi_histogram: POST /api/visualize/multi-histogram.
\* 'datasets' is modelled by the number of datasets. `ax = axes[idx]` raises
\* an IndexError, answered 500, when the grid has fewer subplots than datasets.
generate_multi_histogram(r, dir, tok, t) ==
    IF GetLen(r.datasets) < 2
    THEN Outcome(Error(400), dir, <<>>)
    ELSE LET n_plots == GetLen(r.datasets)
             rows == GridRows(n_plots)
             cols == GridCols(n_plots)
             s == save_figure(dir, "multi_histogram", tok, t)
         IN  IF n_plots > rows * cols
             THEN Outcome(Error(500), dir, <<>>)
             ELSE Drew(Outcome(Ok(s.desc), s.dir, <<s.desc.filename>>),
                       <<Grid(n_plots, rows, cols)>>)

\* ax.bar(categories, values, ...) broadcasts its arguments to one shape and
\* raises a ValueError when they do not broadcast: the lengths differ and
\* neither is 1.
BarRaises(nc, nv) == nc # nv /\ nc # 1 /\ nv # 1

\* generate_bar_chart: POST /api/visualize/bar-chart
generate_bar_chart(r, dir, tok, t) ==
    IF GetLen(r.categories) = 0 \/ GetLen(r.values) = 0
    THEN Outcome(Error(400), dir, <<>>)
    ELSE IF BarRaises(r.categories, r.values)
    THEN Outcome(Error(500), dir, <<>>)
    ELSE LET s == save_figure(dir, "bar_chart", tok, t)
         IN  Outcome(Ok(s.desc), s.dir, <<s.desc.filename>>)

\* The recognised fields of a blood-data record.
Fields == {"recency", "frequency", "monetary", "time", "class"}

\* class_counts.get(c, 0): the number of records of class c.
ClassCount(classes, c) == Cardinality({i \in 1..Len(classes) : classes[i] = c})

\* visualize_blood_data: POST /api/visualize/blood-data. The records are
\* modelled by their number (n), the columns of the DataFrame (cols: every
\* record carries every column) and the 'class' column (classes). tk[i] is
\* the token uuid4 draws for panel i. `percentage = (val / total) * 100`
\* raises ZeroDivisionError when no record has class 0 or 1: the except
\* answers 500 after the earlier panels were saved. The histogram grid and
\* the bar chart draw no point groups.
visualize_blood_data(r, dir, tk, t) ==
    IF GetLen(r.n) = 0
    THEN Outcome(Error(400), dir, <<>>)
    ELSE
    LET s1 == save_figure(dir, "blood_histograms", tk[1], t)
        v1 == <<s1.desc>>
        f1 == <<Figure("blood_histograms", <<>>)>>
        on2 == {"frequency", "monetary", "class"} \subseteq r.cols
        s2 == save_figure(s1.dir, "frequency_vs_monetary", tk[2], t)
        d2 == IF on2 THEN s2.dir ELSE s1.dir
        v2 == IF on2 THEN Append(v1, s2.desc) ELSE v1
        f2 == IF on2
              THEN Append(f1, Figure("frequency_vs_monetary",
                                     ClassGroups(r.classes, <<0, 1>>)))
              ELSE f1
        on3 == "class" \in r.cols
        total == ClassCount(r.classes, 0) + ClassCount(r.classes, 1)
        s3 == save_figure(d2, "class_distribution", tk[3], t)
        d3 == IF on3 THEN s3.dir ELSE d2
        v3 == IF on3 THEN Append(v2, s3.desc) ELSE v2
        f3 == IF on3 THEN Append(f2, Figure("class_distribution", <<>>)) ELSE f2
        on4 == {"recency", "frequency"} \subseteq r.cols
        s4 == save_figure(d3, "recency_vs_frequency", tk[4], t)
        d4 == IF on4 THEN s4.dir ELSE d3
        v4 == IF on4 THEN Append(v3, s4.desc) ELSE v3
        f4 == IF on4
              THEN Append(f3, Figure("recency_vs_frequency", <<PlainGroup(r.n)>>))
              ELSE f3
    IN  IF on3 /\ total = 0
        THEN Drew(Outcome(Error(500), d2, [i \in 1..Len(v2) |-> v2[i].filename]), f2)
        ELSE Drew(Outcome(OkReport(v4), d4, [i \in 1..Len(v4) |-> v4[i].filename]), f4)

(* The requests the model draws. *)

Lengths == {Missing} \cup (0..MaxLen)

HistogramRequests == {[kind |-> "histogram", data |-> n] : n \in Lengths}

ScatterRequests ==
    {[kind |-> "scatter", x_data |-> nx, y_data |-> ny, classes |-> cs] :
        nx \in Lengths, ny \in Lengths, cs \in SeqsUpTo(ClassValues, MaxLen)}

MultiHistogramRequests ==
    {[kind |-> "multi_histogram", datasets |-> n] : n \in {Missing} \cup (0..(MaxLen + 1))}

BarChartRequests ==
    {[kind |-> "bar_chart", categories |-> nc, values |-> nv] :
        nc \in Lengths, nv \in Lengths}

BloodRequests ==
    {[kind |-> "blood", n |-> n, cols |-> {}, classes |-> <<>>] : n \in {Missing, 0}}
    \cup {[kind |-> "blood", n |-> n, cols |-> cols, classes |-> <<>>] :
            n \in 1..MaxLen, cols \in SUBSET (Fields \ {"class"})}
    \cup UNION {{[kind |-> "blood", n |-> n, cols |-> cols \cup {"class"}, classes |-> cs] :
                    cols \in SUBSET (Fields \ {"class"}), cs \in [1..n -> ClassValues]} :
                n \in 1..MaxLen}

\* The elements of a sequence.
Range(seq) == {seq[i] : i \in 1..Len(seq)}

\* The files that differ between two states of the directory.
Touched(dir1, dir2) ==
    {f \in DOMAIN dir1 \cup DOMAIN dir2 :
        \/ f \notin DOMAIN dir1
        \/ f \notin DOMAIN dir2
        \/ dir1[f] # dir2[f]}

\* A render request served: the handler runs from the request to the response.
Serve(r, out) ==
    /\ req' = r
    /\ resp' = out.resp
    /\ touched' = Touched(IMAGE_DIR, out.dir) \cup Range(out.written)
    /\ figs' = out.figs
    /\ IMAGE_DIR' = out.dir
    /\ issued' = issued \cup Range(out.written)
    /\ nputs' = nputs + Len(out.written)
    /\ nreqs' = nreqs + 1
    /\ sw' = IF Len(out.written) > 0 THEN Disturb(sw, "") ELSE sw
    /\ last' = IF Len(out.written) > 0 THEN NoLast ELSE last
    /\ UNCHANGED <<clock, gt>>

Histogram(r, tok) == Serve(r, generate_histogram(r, IMAGE_DIR, tok, clock))

Scatter(r, tok) == Serve(r, generate_scatter(r, IMAGE_DIR, tok, clock))

MultiHistogram(r, tok) == Serve(r, generate_multi_histogram(r, IMAGE_DIR, tok, clock))

BarChart(r, tok) == Serve(r, generate_bar_chart(r, IMAGE_DIR, tok, clock))

BloodData(r, tk) == Serve(r, visualize_blood_data(r, IMAGE_DIR, tk, clock))

----------------------------------------------------------------------------
(* The clock. *)

TickHours == {12, 13}

Tick(d) ==
    /\ clock + d <= MaxClock
    /\ clock' = clock + d
    /\ UNCHANGED <<IMAGE_DIR, issued, nputs, nreqs, req, resp, touched, figs, sw, last, gt>>

----------------------------------------------------------------------------
(* cleanup_old_images: POST /api/visualize/cleanup, one step per system call. *)

\* now = datetime.now(); deleted = 0; os.listdir(IMAGE_DIR)
SweepStart(p) ==
    /\ sw[p].pc \in {"idle", "done"}
    /\ sw' = [sw EXCEPT ![p] =
                [pc |-> "loop", now |-> clock, todo |-> DOMAIN IMAGE_DIR, cur |-> "",
                 deleted |-> 0, status |-> 0, start |-> IMAGE_DIR,
                 alone |-> TRUE, second |-> last.valid, prevNow |-> last.now]]
    /\ UNCHANGED <<IMAGE_DIR, clock, issued, nputs, nreqs, req, resp, touched, figs, last, gt>>

\* for filename in os.listdir(IMAGE_DIR): if os.path.isfile(filepath):
SweepIsFile(p) ==
    /\ sw[p].pc = "loop"
    /\ \E f \in sw[p].todo :
         sw' = [sw EXCEPT ![p].todo = @ \ {f},
                          ![p].cur = IF f \in DOMAIN IMAGE_DIR THEN f ELSE "",
                          ![p].pc = IF f \in DOMAIN IMAGE_DIR THEN "getmtime" ELSE "loop"]
    /\ UNCHANGED <<IMAGE_DIR, clock, issued, nputs, nreqs, req, resp, touched, figs, last, gt>>

\* os.path.getmtime(filepath) raises when the file is gone: except -> 500
SweepGetMTime(p) ==
    /\ sw[p].pc = "getmtime"
    /\ sw' = [sw EXCEPT ![p].pc =
                IF sw[p].cur \notin DOMAIN IMAGE_DIR THEN "done"
                ELSE IF Expired(IMAGE_DIR[sw[p].cur], sw[p].now) THEN "remove"
                ELSE "loop",
              ![p].status = IF sw[p].cur \notin DOMAIN IMAGE_DIR THEN 500 ELSE @,
              ![p].now = IF sw[p].cur \notin DOMAIN IMAGE_DIR THEN 0 ELSE @,
              ![p].cur = IF sw[p].cur \in DOMAIN IMAGE_DIR
                            /\ Expired(IMAGE_DIR[sw[p].cur], sw[p].now) THEN @ ELSE ""]
    /\ UNCHANGED <<IMAGE_DIR, clock, issued, nputs, nreqs, req, resp, touched, figs, last, gt>>

\* os.remove(filepath); deleted += 1. os.remove raises when the file is gone.
SweepRemove(p) ==
    /\ sw[p].pc = "remove"
    /\ IF sw[p].cur \in DOMAIN IMAGE_DIR
       THEN /\ IMAGE_DIR' = remove(IMAGE_DIR, sw[p].cur)
            /\ sw' = Disturb([sw EXCEPT ![p].pc = "loop", ![p].deleted = @ + 1,
                                          ![p].cur = ""], p)
            /\ last' = NoLast
       ELSE /\ sw' = [sw EXCEPT ![p].pc = "done", ![p].status = 500, ![p].cur = "",
                                 ![p].now = 0]
            /\ UNCHANGED <<IMAGE_DIR, last>>
    /\ UNCHANGED <<clock, issued, nputs, nreqs, req, resp, touched, figs, gt>>

\* return jsonify({'success': True, 'deleted': deleted, ...})
SweepReturn(p) ==
    /\ sw[p].pc = "loop"
    /\ sw[p].todo = {}
    /\ sw' = [sw EXCEPT ![p].pc = "done", ![p].status = 200, ![p].cur = "",
                         ![p].now = IF sw[p].alone THEN @ ELSE 0]
    /\ last' = IF sw[p].alone THEN [valid |-> TRUE, now |-> sw[p].now] ELSE last
    /\ UNCHANGED <<IMAGE_DIR, clock, issued, nputs, nreqs, req, resp, touched, figs, gt>>

cleanup_old_images(p) ==
    \/ SweepStart(p)
    \/ SweepIsFile(p)
    \/ SweepGetMTime(p)
    \/ SweepRemove(p)
    \/ SweepReturn(p)

----------------------------------------------------------------------------
(* serve_image: GET /api/images/<filename>. *)

\* A filename no render request can produce.
Unknown == "nothing.png"

GetNames == {Filename("histogram", k) : k \in Tokens} \cup {Unknown}

AllNames == {Filename(p, k) : p \in Prefixes, k \in Tokens} \cup {Unknown}

\* @app.route('/api/images/<filename>'): the path that reaches
\* serve_image(filename).
RoutePath(filename) == "/api/images/" \o filename

IdleGet == [pc |-> "idle", filename |-> "", status |-> 0]

\* if os.path.exists(filepath): ... ; return jsonify({'error': ...}), 404
GetExists(f) ==
    /\ gt.pc \in {"idle", "done"}
    /\ gt' = IF f \in DOMAIN IMAGE_DIR
             THEN [pc |-> "send", filename |-> f, status |-> 0]
             ELSE [pc |-> "done", filename |-> f, status |-> 404]
    /\ UNCHANGED <<IMAGE_DIR, clock, issued, nputs, nreqs, req, resp, touched, figs, sw, last>>

\* return send_file(filepath, mimetype='image/png'): opening a file that is
\* gone raises, and the handler has no except: the framework answers 500.
GetSend ==
    /\ gt.pc = "send"
    /\ gt' = [gt EXCEPT !.pc = "done",
                        !.status = IF gt.filename \in DOMAIN IMAGE_DIR THEN 200 ELSE 500]
    /\ UNCHANGED <<IMAGE_DIR, clock, issued, nputs, nreqs, req, resp, touched, figs, sw, last>>

\* A GET on a url: the route gives serve_image its filename.
GetUrl(url) == \E f \in AllNames : RoutePath(f) = url /\ GetExists(f)

----------------------------------------------------------------------------
(* The store-lifecycle specification: histogram requests, the clock, two   *)
(* cleanup workers and one image request, interleaved at system calls.     *)

Init ==
    /\ IMAGE_DIR = <<>>
    /\ clock = 0
    /\ issued = {}
    /\ nputs = 0
    /\ nreqs = 0
    /\ req = NoRequest
    /\ resp = NoResponse
    /\ touched = {}
    /\ figs = <<>>
    /\ sw = [p \in Sweepers |-> IdleSweep]
    /\ last = NoLast
    /\ gt = IdleGet

\* The histogram requests of the lifecycle specifications: one data point.
StoreRequests == {r \in HistogramRequests : r.data = 1}

Put == nputs < MaxPuts /\ \E r \in StoreRequests, tok \in Tokens : Histogram(r, tok)

Advance == \E d \in TickHours : Tick(d)

Sweep == \E p \in Sweepers : cleanup_old_images(p)

Get == (\E f \in GetNames : GetExists(f)) \/ GetSend

Next == Put \/ Advance \/ Sweep

Spec == Init /\ [][Next]_vars

(* The retrieval specification: one cleanup worker and one image request. *)

SweepOne == cleanup_old_images("w1")

NextGet == Put \/ Advance \/ SweepOne \/ Get

SpecGet == Init /\ [][NextGet]_vars

(* The render specification: one render request of any kind, served on a   *)
(* directory that holds what earlier requests left there (the directory    *)
(* outlives the process: os.makedirs(IMAGE_DIR, exist_ok=True)).           *)

\* The directories a request may find: empty, one histogram image, or one
\* image of every kind.
InitialStores ==
    {<<>>,
     [f \in {Filename("histogram", 1)} |-> 0],
     [f \in {Filename(p, 1) : p \in Prefixes} |-> 0]}

InitRender ==
    /\ IMAGE_DIR \in InitialStores
    /\ clock = 0
    /\ issued = DOMAIN IMAGE_DIR
    /\ nputs = Cardinality(DOMAIN IMAGE_DIR)
    /\ nreqs = 0
    /\ req = NoRequest
    /\ resp = NoResponse
    /\ touched = {}
    /\ figs = <<>>
    /\ sw = [p \in Sweepers |-> IdleSweep]
    /\ last = NoLast
    /\ gt = IdleGet

RenderHistogram ==
    nreqs = 0 /\ \E r \in HistogramRequests, tok \in Tokens : Histogram(r, tok)

RenderScatter ==
    nreqs = 0 /\ \E r \in ScatterRequests, tok \in Tokens : Scatter(r, tok)

RenderMultiHistogram ==
    nreqs = 0
    /\ \E r \in MultiHistogramRequests, tok \in Tokens : MultiHistogram(r, tok)

RenderBarChart ==
    nreqs = 0 /\ \E r \in BarChartRequests, tok \in Tokens : BarChart(r, tok)

RenderBloodData ==
    nreqs = 0
    /\ \E r \in BloodRequests, tk \in [1..4 -> Tokens] : BloodData(r, tk)

\* The caller fetches an image of the response it got.
FetchReturned == \E i \in 1..Len(resp.descs) : GetUrl(resp.descs[i].url)

NextRender ==
    \/ RenderHistogram
    \/ RenderScatter
    \/ RenderMultiHistogram
    \/ RenderBarChart
    \/ RenderBloodData
    \/ FetchReturned
    \/ GetSend

SpecRender == InitRender /\ [][NextRender]_vars

----------------------------------------------------------------------------
(* The claims. *)

\* The filenames of a response's descriptors.
Returned == {resp.descs[i].filename : i \in 1..Len(resp.descs)}

\* An entry older than the 24h retention window at time now.
Older(mtime, now) == now - mtime > 24

\* C1: whenever a render request is answered with descriptors, every
\* descriptor's file was written by that request and is in the image
\* directory, its url is /api/images/<filename>, and a GET of a returned
\* image issued after the response answers 200.
C1_DescriptorStored ==
    /\ resp.status = 200 =>
         /\ Len(resp.descs) >= 1
         /\ \A i \in 1..Len(resp.descs) :
              /\ resp.descs[i].filename \in DOMAIN IMAGE_DIR
              /\ resp.descs[i].filename \in touched
              /\ resp.descs[i].url = "/api/images/" \o resp.descs[i].filename
    /\ (gt.pc = "done" /\ gt.filename \in Returned) => gt.status = 200

\* C1's case: a blood-data report of four panels is returned and one of its
\* images has been fetched.
C1_Witness ==
    /\ req.kind = "blood"
    /\ resp.status = 200
    /\ Len(resp.descs) = 4
    /\ gt.pc = "done"
    /\ gt.filename = resp.descs[4].filename
    /\ gt.status = 200

\* C2 (as claimed): no two save_figure calls receive the same filename: the
\* filenames ever written are as many as the calls.
C2_FreshIds == Cardinality(issued) = nputs

\* C3 (as claimed): whenever a cleanup deletes a file, the file it deletes is
\* older than the retention window at the cleanup's start.
C3_SweepDeletesOnlyExpired ==
    [][\A p \in Sweepers :
          (sw[p].pc = "remove" /\ sw'[p].deleted = sw[p].deleted + 1)
              => Older(IMAGE_DIR[sw[p].cur], sw[p].now)]_vars

\* C4 (as claimed): a cleanup never ends in an error when a file it listed
\* disappears before it deletes it: every cleanup that ends, ends in success.
C4_SweepNeverFails == \A p \in Sweepers : sw[p].pc = "done" => sw[p].status = 200

\* C5 (as claimed): an image request ends with the image (200) or NotFound
\* (404), also when a cleanup deletes the file between the existence check
\* and the read.
C5_GetFoundOrNotFound == gt.pc = "done" => gt.status \in {200, 404}

\* C6: a cleanup that ran to completion with no store change by any other
\* request has deleted exactly the entries that were older than the
\* retention window at its start, and reports their number.
C6_SweepAlone ==
    \A p \in Sweepers :
        (sw[p].pc = "done" /\ sw[p].alone) =>
            LET old == {f \in DOMAIN sw[p].start : Older(sw[p].start[f], sw[p].now)}
            IN  /\ sw[p].status = 200
                /\ IMAGE_DIR = [f \in DOMAIN sw[p].start \ old |-> sw[p].start[f]]
                /\ sw[p].deleted = Cardinality(old)

\* C6's case: one expired entry beside a fresh one, deleted == 1.
C6_Witness ==
    \E p \in Sweepers :
        /\ sw[p].pc = "done"
        /\ sw[p].alone
        /\ sw[p].deleted = 1
        /\ Cardinality(DOMAIN sw[p].start) = 2
        /\ Cardinality(DOMAIN IMAGE_DIR) = 1

\* C7 (as claimed): a cleanup that follows a cleanup, with no image created
\* between them, deletes nothing and leaves the store unchanged.
C7_SecondSweepDeletesNothing ==
    \A p \in Sweepers :
        (sw[p].pc = "done" /\ sw[p].alone /\ sw[p].second) =>
            /\ sw[p].deleted = 0
            /\ IMAGE_DIR = sw[p].start

\* C7 (amended): a cleanup that follows a cleanup, with no image created
\* between them and no stored image's age passing the retention window
\* between the first cleanup's time and the second's, deletes nothing and
\* leaves the store unchanged.
C7_SecondSweepIdempotent ==
    \A p \in Sweepers :
        ( /\ sw[p].pc = "done" /\ sw[p].alone /\ sw[p].second
          /\ \A f \in DOMAIN sw[p].start :
                Older(sw[p].start[f], sw[p].now) => Older(sw[p].start[f], sw[p].prevNow) )
        =>  /\ sw[p].deleted = 0
            /\ IMAGE_DIR = sw[p].start

\* C7's case: one worker's cleanup deleted an entry, the other's cleanup
\* followed it on the store it left (a fresh image remains) and deleted 0.
C7_Witness ==
    \E p \in Sweepers, q \in Sweepers :
        /\ p # q
        /\ sw[p].pc = "done" /\ sw[p].alone /\ sw[p].deleted = 1
        /\ sw[q].pc = "done" /\ sw[q].alone /\ sw[q].second
        /\ sw[q].prevNow = sw[p].now
        /\ sw[q].start # <<>>
        /\ sw[q].deleted = 0

\* The panel a descriptor of the blood-data report belongs to.
PanelOf(desc) ==
    CHOOSE p \in Prefixes : desc.filename \in {Filename(p, k) : k \in Tokens}

\* The panels C8 expects for the columns present.
Required(panel, cols) ==
    CASE panel = "blood_histograms" ->
            cols \cap {"recency", "frequency", "monetary", "time"} # {}
      [] panel = "frequency_vs_monetary" ->
            {"frequency", "monetary", "class"} \subseteq cols
      [] panel = "class_distribution" -> "class" \in cols
      [] panel = "recency_vs_frequency" -> {"recency", "frequency"} \subseteq cols

PanelOrder ==
    <<"blood_histograms", "frequency_vs_monetary", "class_distribution",
      "recency_vs_frequency">>

ExpectedPanels(cols) == SelectSeq(PanelOrder, LAMBDA p : Required(p, cols))

\* C8 (as claimed): a blood-data request with at least one record is answered
\* with exactly the panels whose required fields are present, in the fixed
\* order, and count is the length of the list.
C8_PanelsByFields ==
    (req.kind = "blood" /\ GetLen(req.n) > 0) =>
        /\ resp.status = 200
        /\ [i \in 1..Len(resp.descs) |-> PanelOf(resp.descs[i])] = ExpectedPanels(req.cols)
        /\ resp.count = Len(resp.descs)

\* A request whose paired arrays are all non-empty and differ in length.
Mismatched(r) ==
    \/ /\ r.kind = "scatter"
       /\ GetLen(r.x_data) > 0 /\ GetLen(r.y_data) > 0
       /\ \/ r.x_data # r.y_data
          \/ Len(r.classes) > 0 /\ Len(r.classes) # r.x_data
    \/ /\ r.kind = "bar_chart"
       /\ GetLen(r.categories) > 0 /\ GetLen(r.values) > 0
       /\ r.categories # r.values

\* C9 (as claimed): a request whose paired arrays differ in length is answered
\* 400 and no image is stored.
C9_MismatchRejected == Mismatched(req) => (resp.status = 400 /\ touched = {})

\* A request with a missing or empty top-level input.
EmptyInput(r) ==
    \/ r.kind = "histogram" /\ GetLen(r.data) = 0
    \/ r.kind = "scatter" /\ (GetLen(r.x_data) = 0 \/ GetLen(r.y_data) = 0)
    \/ r.kind = "bar_chart" /\ (GetLen(r.categories) = 0 \/ GetLen(r.values) = 0)
    \/ r.kind = "blood" /\ GetLen(r.n) = 0
    \/ r.kind = "multi_histogram" /\ GetLen(r.datasets) < 2

\* C10: a request with a missing or empty top-level input, or a
\* multi-histogram of fewer than 2 datasets, is answered 400 with no
\* descriptor, and no file is created, modified or deleted.
C10_EmptyInputRejected ==
    EmptyInput(req) => (resp.status = 400 /\ resp.descs = <<>> /\ touched = {})

\* C10's case: a multi-histogram of one dataset is refused on a store that
\* holds images.
C10_Witness ==
    /\ req.kind = "multi_histogram"
    /\ req.datasets = 1
    /\ resp.status = 400
    /\ touched = {}
    /\ IMAGE_DIR # <<>>


\* Point i of the figure is drawn in a group of this colour and label.
InGroup(fig, i, color, label) ==
    \E k \in 1..Len(fig.groups) :
        /\ fig.groups[k].color = color
        /\ fig.groups[k].label = label
        /\ i \in fig.groups[k].points

\* Point i of the figure is drawn in some group.
Grouped(fig, i) == \E k \in 1..Len(fig.groups) : i \in fig.groups[k].points

\* The sizes of the groups, summed.
RECURSIVE SumSizes(_)
SumSizes(groups) ==
    IF groups = <<>>
    THEN 0
    ELSE Cardinality(groups[1].points) + SumSizes(Tail(groups))

\* The figure buckets the points of these classes into the classes {0, 1}.
TwoClassBuckets(fig, classes) ==
    /\ \A i \in 1..Len(classes) :
        /\ classes[i] = 1 => InGroup(fig, i, "#10b981", "Return Donor")
        /\ classes[i] = 0 => InGroup(fig, i, "#ef4444", "Non-Return Donor")
        /\ classes[i] \notin {0, 1} => ~Grouped(fig, i)
    /\ (\A i \in 1..Len(classes) : classes[i] \in {0, 1})
        => SumSizes(fig.groups) = Len(classes)

\* The saved figures that colour their points by class: the scatter chart of
\* a request with classes and the frequency-vs-monetary panel.
ClassColoured(fig) ==
    \/ fig.panel = "scatter" /\ Len(req.classes) > 0
    \/ fig.panel = "frequency_vs_monetary"

\* C11: a scatter drawn with classes, on the scatter endpoint and in the
\* frequency-vs-monetary panel of the blood-data report alike, draws every
\* class-1 point in the green "Return Donor" group, every class-0 point in the
\* red "Non-Return Donor" group and a point of any other class in no group;
\* when every class is 0 or 1 the group sizes sum to the number of points.
C11_TwoClassBuckets ==
    \A k \in 1..Len(figs) :
        ClassColoured(figs[k]) => TwoClassBuckets(figs[k], req.classes)

\* C11 restricted to the blood-data report.
C11_BloodPanelBuckets ==
    \A k \in 1..Len(figs) :
        figs[k].panel = "frequency_vs_monetary"
            => TwoClassBuckets(figs[k], req.classes)

\* C11 restricted to requests whose classes are all 0 or 1.
C11_KnownClassBuckets ==
    \A k \in 1..Len(figs) :
        (ClassColoured(figs[k]) /\ \A i \in 1..Len(req.classes) : req.classes[i] \in {0, 1})
            => TwoClassBuckets(figs[k], req.classes)

\* ceil(n / 2)
Ceil2(n) == CHOOSE k \in 0..n : 2 * k >= n /\ 2 * (k - 1) < n

\* The subplots of the grid that are hidden.
Hidden(grid) == {k \in 1..Len(grid.axes) : ~grid.axes[k].visible}

\* Dataset i is drawn in exactly one cell, cell i in row-major order of a
\* 2-column grid, and the cell is visible.
DrawnInCell(grid, i) ==
    /\ Cardinality({k \in 1..Len(grid.axes) : grid.axes[k].dataset = i}) = 1
    /\ \E k \in 1..Len(grid.axes) :
        /\ grid.axes[k].dataset = i
        /\ grid.axes[k].visible
        /\ grid.axes[k].row = (i - 1) \div 2
        /\ grid.axes[k].col = (i - 1) % 2

\* C12: a multi-histogram request with N >= 2 datasets is drawn on a grid of
\* 2 columns and ceil(N/2) rows, dataset i in cell i (row-major), and exactly
\* the 2*ceil(N/2) - N cells after the last dataset are hidden.
C12_GridLayout ==
    (req.kind = "multi_histogram" /\ req.datasets >= 2) =>
        /\ resp.status = 200
        /\ Len(figs) = 1
        /\ figs[1].cols = 2
        /\ figs[1].rows = Ceil2(req.datasets)
        /\ Len(figs[1].axes) = 2 * Ceil2(req.datasets)
        /\ \A i \in 1..req.datasets : DrawnInCell(figs[1], i)
        /\ Hidden(figs[1]) = (req.datasets + 1)..(2 * Ceil2(req.datasets))
        /\ Cardinality(Hidden(figs[1])) = 2 * Ceil2(req.datasets) - req.datasets
        /\ \A k \in Hidden(figs[1]) : figs[1].axes[k].dataset = NoDataset

\* Three datasets were drawn on a 2x2 grid whose 4th cell is hidden.
C12_Witness ==
    /\ req.kind = "multi_histogram"
    /\ req.datasets = 3
    /\ resp.status = 200
    /\ Len(figs) = 1
    /\ figs[1].rows = 2
    /\ figs[1].cols = 2
    /\ Hidden(figs[1]) = {4}
    /\ figs[1].axes[4].row = 1
    /\ figs[1].axes[4].col = 1

\* Two datasets were drawn on a 1x2 grid with no cell hidden.
C12_WitnessEven ==
    /\ req.kind = "multi_histogram"
    /\ req.datasets = 2
    /\ resp.status = 200
    /\ Len(figs) = 1
    /\ figs[1].rows = 1
    /\ Hidden(figs[1]) = {}

\* The request was answered with an error.
Failed == resp.status \in {400, 500}

\* C13: the images a render request adds to the store are as many as the
\* descriptors of its response; a request answered 400 or 500 adds none, so a
\* blood-data report that fails in a later panel leaves no earlier panel's
\* image behind.
C13_StoredAsReturned ==
    req.kind # "none" =>
        /\ Cardinality(touched) = Len(resp.descs)
        /\ Failed => touched = {}

\* C13 for every endpoint but the blood-data report.
C13_ChartStoredAsReturned ==
    req.kind \notin {"none", "blood"} =>
        /\ Cardinality(touched) = Len(resp.descs)
        /\ Failed => touched = {}
====
